---- MODULE Spec2Model ----
(***************************************************************************)
(* Model of plugins/modules/cs_k8s.py: one invocation of the cs_k8s module *)
(* (main and the AnsibleCloudStackKubernetes methods) against a CloudStack *)
(* control plane.  The invocation is cut at its remote calls: each action  *)
(* runs the code from one remote call up to the next one.                  *)
(***************************************************************************)
EXTENDS Integers, Sequences, FiniteSets, TLC

\* ------------------------------------------------------------------ bounds
\* sizes the size option and a cluster record range over: 1..MaxSize
MaxSize == 2
\* invocations run in succession against the same remote state (SpecTwice)
MaxRuns == 2

\* ------------------------------------------------------------- Python values
\* Python None for a string-valued option or call argument
None == "<None>"
\* Python None for the int option size (node counts are positive)
NoSize == 0

\* str.lower() on the strings of the model: every string holding an upper-case
\* letter is listed with its lower-case form, the others are their own.
LowerTable ==
    { <<"V1", "v1">>, <<"V2", "v2">>,
      <<"SMALL", "small">>, <<"Small", "small">>, <<"Large", "large">>,
      <<"Running", "running">>, <<"STOPPED", "stopped">>, <<"Stopped", "stopped">>,
      <<"Stopping", "stopping">>, <<"Error", "error">>, <<"eRRoR", "error">>,
      <<"Scaling", "scaling">> }

Lower(s) ==
    IF \E p \in LowerTable : p[1] = s
    THEN (CHOOSE p \in LowerTable : p[1] = s)[2]
    ELSE s

\* --------------------------------------------------------- cluster records
\* A response dict of the cluster API: `has` is its key set, the other fields
\* hold the values of the keys it has (and a fixed filler for the others).
\* The empty dict and None are both falsy in Python and are both NoK8s.
Keys == {"id", "jobid", "state", "kubernetesversionid", "serviceofferingid", "size", "config"}

Rec(has, id, st, vid, oid, sz) ==
    [has |-> has,
     id |-> IF "id" \in has THEN id ELSE "",
     state |-> IF "state" \in has THEN st ELSE "",
     kubernetesversionid |-> IF "kubernetesversionid" \in has THEN vid ELSE "",
     serviceofferingid |-> IF "serviceofferingid" \in has THEN oid ELSE "",
     size |-> IF "size" \in has THEN sz ELSE NoSize]

NoK8s == Rec({}, "", "", "", "", NoSize)

Truthy(k) == k.has # {}

\* the keys of a cluster as listKubernetesClusters and a finished job give it
ClusterKeys == {"id", "state", "kubernetesversionid", "serviceofferingid", "size"}

WithKeys(k, ks) ==
    Rec(k.has \cup ks, k.id, k.state, k.kubernetesversionid, k.serviceofferingid, k.size)

\* ------------------------------------------------------------ option values
Lifecycles == {"present", "enabled", "disabled", "absent"}
VersionOpts == {None, "V1", "vid2", "nope"}
OfferingOpts == {None, "SMALL", "oid2", "nope"}
SizeOpts == {NoSize} \cup (1..MaxSize)
Registry == [url |-> "reg.example", username |-> "user", password |-> "secret"]
NoRegistry == [url |-> None, username |-> None, password |-> None]

\* the remote catalogs: empty, or two entries
NoRef == [id |-> "", name |-> ""]
VersionCatalogs == { <<>>, << [id |-> "vid1", name |-> "v1"], [id |-> "vid2", name |-> "V2"] >> }
OfferingCatalogs == { <<>>, << [id |-> "oid1", name |-> "Small"], [id |-> "oid2", name |-> "Large"] >> }

RemoteStates == {"Running", "starting", "STOPPED", "Stopping", "Error", "eRRoR", "Scaling"}

VARIABLES
    params,                 \* module.params
    check_mode,             \* module.check_mode
    versions,               \* remote: catalog of Kubernetes versions
    service_offerings,      \* remote: catalog of service offerings
    cluster,                \* remote: the cluster named params.name, or NoK8s
    jobs,                   \* remote: the jobs accepted and not finished, oldest first
    pc,                     \* position of the invocation
    caller,                 \* which of _create_k8s / _update_k8s resolves references
    ret,                    \* where the code goes on after poll_job
    job,                    \* the job the last mutating call started
    self_k8s,               \* self.k8s
    k8s,                    \* the local k8s of the running method, then of main
    self_version,           \* self.version
    self_service_offering,  \* self.service_offering
    changed,                \* self.result['changed']
    failure,                \* why the invocation failed, "" while it has not
    calls,                  \* the remote calls issued so far by this invocation
    seen,                   \* the record start_k8s / stop_k8s evaluated
    attached,               \* _k8s_config stored a config payload in the record
    result,                 \* what exit_json reports
    run,                    \* number of the invocation
    prev                    \* how the invocation before this one ended

env == <<params, check_mode, versions, service_offerings>>
remote == <<cluster, jobs>>
vars == <<params, check_mode, versions, service_offerings, cluster, jobs, pc, caller, ret,
          job, self_k8s, k8s, self_version, self_service_offering, changed, failure,
          calls, seen, attached, result, run, prev>>

\* ------------------------------------------------------------ remote calls
\* A remote call as the gateway sees it: the command and the arguments the
\* claims speak about (None where the call does not carry the argument).
\* The name argument is tracked on the cluster lookups only.
Call(op, id, vid, oid, sz, reg) ==
    [op |-> op, id |-> id, name |-> None, kubernetesversionid |-> vid,
     serviceofferingid |-> oid, size |-> sz, dockerregistryurl |-> reg.url,
     dockerregistryusername |-> reg.username, dockerregistrypassword |-> reg.password]

Query(op) == Call(op, None, None, None, NoSize, NoRegistry)

MutatingOps == {"createKubernetesCluster", "upgradeKubernetesCluster",
                "scaleKubernetesCluster", "startKubernetesCluster",
                "stopKubernetesCluster", "deleteKubernetesCluster"}

\* the asynchronous job a mutating call starts
Job(op, vid, oid, sz) ==
    [op |-> op, kubernetesversionid |-> vid, serviceofferingid |-> oid, size |-> sz]

NoJob == Job("", None, None, NoSize)

\* the remote cluster once job j has succeeded
Apply(j, c) ==
    IF j.op = "createKubernetesCluster"
    THEN IF Truthy(c) THEN c
         ELSE Rec(ClusterKeys, "c1", "Running", j.kubernetesversionid,
                  j.serviceofferingid, j.size)
    ELSE IF ~Truthy(c) THEN c
    ELSE IF j.op = "upgradeKubernetesCluster"
    THEN Rec(c.has, c.id, c.state, j.kubernetesversionid, c.serviceofferingid, c.size)
    ELSE IF j.op = "scaleKubernetesCluster"
    THEN Rec(c.has, c.id, c.state, c.kubernetesversionid,
             IF j.serviceofferingid = None THEN c.serviceofferingid ELSE j.serviceofferingid,
             IF j.size = NoSize THEN c.size ELSE j.size)
    ELSE IF j.op = "startKubernetesCluster"
    THEN Rec(c.has, c.id, "Running", c.kubernetesversionid, c.serviceofferingid, c.size)
    ELSE IF j.op = "stopKubernetesCluster"
    THEN Rec(c.has, c.id, "Stopped", c.kubernetesversionid, c.serviceofferingid, c.size)
    ELSE NoK8s

\* What a mutating call answers at once: the job handle (with the new id for a
\* create), or the handle together with a snapshot of the record as it is.
Immediate(op) ==
    { Rec(IF op = "createKubernetesCluster" THEN {"jobid", "id"} ELSE {"jobid"},
          "c1", "", "", "", NoSize) }
    \cup
    { WithKeys(cluster, {"jobid"}) : x \in IF Truthy(cluster) /\ op # "createKubernetesCluster"
                                              THEN {1} ELSE {} }

\* ----------------------------------------------------- reference resolution
\* the loop of get_version / get_service_offering: the first entry whose
\* lower-cased name, or whose id, is the lower-cased wanted string
Matches(entry, want) == Lower(want) \in {Lower(entry.name), entry.id}

FirstMatch(catalog, want) ==
    LET hits == {i \in 1..Len(catalog) : Matches(catalog[i], want)}
    IN IF hits = {} THEN NoRef
       ELSE catalog[CHOOSE i \in hits : \A h \in hits : i <= h]

\* (mutant) a resolution that does not tell an empty catalog from a name
\* that is not in it
Resolution_notFoundFirst(catalog, want) ==
    IF want = None THEN "exception"
    ELSE IF FirstMatch(catalog, want) = NoRef THEN "not_found"
    ELSE "ok"

\* how a resolution against a listed catalog ends
Resolution(catalog, want) ==
    IF catalog = <<>> THEN "none_available"
    ELSE IF want = None THEN "exception"
    ELSE IF FirstMatch(catalog, want) = NoRef THEN "not_found"
    ELSE "ok"

\* ------------------------------------------------------------- has_changed
\* AnsibleCloudStack.has_changed for one key: a wanted value of None is
\* skipped; otherwise the record's field must equal it.
KeyChanged(key, value, cur) ==
    IF key = "size"
    THEN value # NoSize /\ ("size" \notin cur.has \/ cur.size # value)
    ELSE value # None /\ (key \notin cur.has \/ cur[key] # value)

HasChanged(want, cur, only_keys) ==
    \E key \in only_keys : KeyChanged(key, want[key], cur)

\* ------------------------------------------------------------------ inputs
\* module.params after AnsibleModule has validated them: name and zone are
\* always given; required_if makes description, service_offering, size and
\* version given when state is present.
RequiredIfPresent(p) ==
    p.state = "present" =>
        /\ p.description # None
        /\ p.service_offering # None
        /\ p.size # NoSize
        /\ p.version # None

\* the identifier get_k8s reads from the options: none, the identifier of the
\* cluster of the model, or one no cluster has
IdOpts == {None, "c1", "c9"}

\* the name option (required)
ClusterName == "k8s"

Params ==
    { p \in [id : IdOpts, state : Lifecycles, version : VersionOpts, service_offering : OfferingOpts,
             size : SizeOpts, description : {None, "Kubernetes cluster"},
             docker_registry : {<<>>, <<Registry>>}, poll_async : BOOLEAN] :
        RequiredIfPresent(p) }

\* the remote cluster before the first invocation: none, or a record with
\* version vid1, offering oid1 and size 1 in any of the remote states
Clusters ==
    {NoK8s}
    \cup { Rec(ClusterKeys, "c1", st, "vid1", "oid1", 1) : st \in RemoteStates }
    \cup { Rec(ClusterKeys \cup {"config"}, "c1", st, "vid1", "oid1", 1) :
             st \in {"Running", "STOPPED"} }

\* The inputs the model runs: options no code path reads in a scenario are
\* left out of it (absent reads none of them; only _create_k8s reads
\* description and docker_registry), and one catalog at most is empty.
Scenario(p, c, vs, os) ==
    /\ p.state = "absent" =>
           /\ p.version = None /\ p.service_offering = None /\ p.size = NoSize
           /\ p.description = None /\ p.docker_registry = <<>>
    /\ Truthy(c) =>
           /\ p.docker_registry = <<>>
           /\ p.state # "present" => p.description = None
    /\ vs # <<>> \/ os # <<>>

EntryPc(p) == IF p.state \in {"absent"} THEN "absent_k8s" ELSE "present_k8s"

NoPrev == [ok |-> FALSE, changed |-> FALSE, cluster |-> NoK8s, jobs |-> <<>>, issued |-> {}]
NoResult == [changed |-> FALSE, config |-> FALSE]

Fresh ==
    /\ pc = EntryPc(params)
    /\ caller = ""
    /\ ret = ""
    /\ job = NoJob
    /\ self_k8s = NoK8s
    /\ k8s = NoK8s
    /\ self_version = NoRef
    /\ self_service_offering = NoRef
    /\ changed = FALSE
    /\ failure = ""
    /\ calls = <<>>
    /\ seen = None
    /\ attached = FALSE
    /\ result = NoResult

Start ==
    /\ params \in Params
    /\ check_mode \in BOOLEAN
    /\ versions \in VersionCatalogs
    /\ service_offerings \in OfferingCatalogs
    /\ cluster \in Clusters
    /\ Scenario(params, cluster, versions, service_offerings)
    /\ jobs = <<>>
    /\ Fresh
    /\ run = 1
    /\ prev = NoPrev

\* the invocations that name the cluster by its name only
Init ==
    /\ Start
    /\ params.id = None

\* ------------------------------------------------------- steps shared by all
\* fail_json, or an exception that ends the process
Fail(why) ==
    /\ pc' = "failed"
    /\ failure' = why

\* (mutant) a rejected mutating call that does not end the invocation: the
\* failure is noted and the method goes on with the record it had
Issue_ignoresRejection(log, call, j, next) ==
    /\ calls' = Append(log, call)
    /\ \/ /\ failure' = "api"
          /\ pc' = next
          /\ UNCHANGED <<k8s, jobs, job, ret>>
       \/ \E resp \in Immediate(j.op) :
            /\ k8s' = resp
            /\ jobs' = Append(jobs, j)
            /\ job' = j
            /\ ret' = next
            /\ pc' = IF params.poll_async THEN "poll_job" ELSE next
            /\ UNCHANGED failure

\* (mutant) a mutating call whose job is never polled
Issue_neverPolls(log, call, j, next) ==
    /\ calls' = Append(log, call)
    /\ \/ /\ Fail("api")
          /\ UNCHANGED <<k8s, jobs, job, ret>>
       \/ \E resp \in Immediate(j.op) :
            /\ k8s' = resp
            /\ jobs' = Append(jobs, j)
            /\ job' = j
            /\ ret' = next
            /\ pc' = next
            /\ UNCHANGED failure

\* query_api of a mutating command, with the poll decision that follows it:
\* the remote rejects the call, or accepts it, starts job j and answers at once
Issue(log, call, j, next) ==
    /\ calls' = Append(log, call)
    /\ \/ /\ Fail("api")
          /\ UNCHANGED <<k8s, jobs, job, ret>>
       \/ \E resp \in Immediate(j.op) :
            /\ k8s' = resp
            /\ jobs' = Append(jobs, j)
            /\ job' = j
            /\ ret' = next
            /\ pc' = IF params.poll_async THEN "poll_job" ELSE next
            /\ UNCHANGED failure

\* the first query of get_k8s: args holds the identifier only
ListById == [Query("listKubernetesClusters") EXCEPT !.id = params.id]

\* the last query of get_k8s: args holds the name, and the identifier too
\* when one was supplied
ListClusters == [Query("listKubernetesClusters") EXCEPT !.id = params.id,
                                                        !.name = ClusterName]

\* what listKubernetesClusters answers: the cluster, when it passes every
\* filter the call carries
ListResult(call) ==
    IF /\ Truthy(cluster)
       /\ call.id \in {None, cluster.id}
       /\ call.name \in {None, ClusterName}
    THEN cluster
    ELSE NoK8s

\* get_k8s when self.k8s is falsy: the queries it issues, whether one of them
\* is rejected, and the record it returns.  With an identifier the lookup by
\* identifier comes first, and the code goes on to the second query when that
\* one yields nothing.
Lookup ==
    LET rejected(log) == [calls |-> log, failed |-> TRUE, k8s |-> NoK8s]
        answered(log, k) == [calls |-> log, failed |-> FALSE, k8s |-> k]
    IN  IF params.id # None
        THEN {rejected(<<ListById>>)}
             \cup IF Truthy(ListResult(ListById))
                  THEN {answered(<<ListById>>, ListResult(ListById))}
                  ELSE {rejected(<<ListById, ListClusters>>),
                        answered(<<ListById, ListClusters>>, ListResult(ListClusters))}
        ELSE {rejected(<<ListClusters>>),
              answered(<<ListClusters>>, ListResult(ListClusters))}

\* --------------------------------------------------------------- absent_k8s
\* (mutant) the check-mode test of absent_k8s inverted
DeleteIssues_inverted == check_mode

\* `if not self.module.check_mode` of absent_k8s
DeleteIssues == ~check_mode

\* absent_k8s up to its mutating call: the lookup and the changed flag
AbsentK8s ==
    /\ pc = "absent_k8s"
    /\ \E found \in Lookup :
          /\ calls' = calls \o found.calls
          /\ IF found.failed
             THEN /\ Fail("api")
                  /\ UNCHANGED <<self_k8s, k8s, changed>>
             ELSE /\ self_k8s' = found.k8s
                  /\ k8s' = found.k8s
                  /\ changed' = (changed \/ Truthy(found.k8s))
                  /\ pc' = IF Truthy(found.k8s) /\ DeleteIssues THEN "delete" ELSE "final"
                  /\ UNCHANGED failure
    /\ UNCHANGED <<env, remote, caller, ret, job, self_version, self_service_offering,
                   seen, attached, result, run, prev>>

DeleteCall == Call("deleteKubernetesCluster", k8s.id, None, None, NoSize, NoRegistry)

DeleteK8s ==
    /\ pc = "delete"
    /\ Issue(calls, DeleteCall, Job("deleteKubernetesCluster", None, None, NoSize), "final")
    /\ UNCHANGED <<env, cluster, caller, self_k8s, self_version, self_service_offering,
                   changed, seen, attached, result, run, prev>>

\* ----------------------------------------------------------------- poll_job
\* AnsibleCloudStack.poll_job(job, 'kubernetescluster'): queries the job until
\* it has ended (logged as one query); a failed job is fatal; a successful one
\* yields the final record when its result holds one (a delete's does not).
PollJob ==
    /\ pc = "poll_job"
    /\ IF "jobid" \notin k8s.has
       THEN /\ pc' = ret
            /\ UNCHANGED <<calls, failure, cluster, jobs, k8s>>
       ELSE /\ calls' = Append(calls, Query("queryAsyncJobResult"))
            /\ \/ /\ Fail("job")
                  /\ jobs' = Tail(jobs)
                  /\ UNCHANGED <<cluster, k8s>>
               \/ LET after == Apply(Head(jobs), cluster)
                  IN /\ cluster' = after
                     /\ jobs' = Tail(jobs)
                     /\ k8s' = IF job.op # "deleteKubernetesCluster" /\ Truthy(after)
                               THEN after ELSE k8s
                     /\ pc' = ret
                     /\ UNCHANGED failure
    /\ UNCHANGED <<env, caller, ret, job, self_k8s, self_version, self_service_offering,
                   changed, seen, attached, result, run, prev>>

\* The remote finishes the oldest job, which nobody is polling: with
\* poll_async every job is polled before the next call, so the job a poll
\* waits for is the only one.  (A job that fails instead leaves the cluster as
\* a job that never finishes does: that is the run in which this step is not
\* taken.)
JobFinish ==
    /\ jobs # <<>>
    /\ pc # "poll_job"
    /\ jobs' = Tail(jobs)
    /\ cluster' = Apply(Head(jobs), cluster)
    /\ UNCHANGED <<env, pc, caller, ret, job, self_k8s, k8s, self_version,
                   self_service_offering, changed, failure, calls, seen, attached,
                   result, run, prev>>

\* -------------------------------------------------------------- present_k8s
\* fail_on_missing_params(required_params) of _create_k8s (name and zone are
\* always given)
MissingParams(p) ==
    \/ p.description = None
    \/ p.service_offering = None
    \/ p.size = NoSize
    \/ p.version = None

\* (mutant) present_k8s taking the create branch whatever the lookup found
Exists_never(k) == FALSE

\* `if k8s:` of present_k8s, on the record the lookup returned
Exists(k) == Truthy(k)

\* present_k8s up to the first catalog query: the lookup, then _update_k8s
\* (record found) or _create_k8s with its parameter check (none found)
PresentK8s ==
    /\ pc = "present_k8s"
    /\ \E found \in Lookup :
          /\ calls' = calls \o found.calls
          /\ IF found.failed
             THEN /\ Fail("api")
                  /\ UNCHANGED <<self_k8s, k8s, caller>>
             ELSE /\ self_k8s' = found.k8s
                  /\ k8s' = found.k8s
                  /\ caller' = IF Exists(found.k8s) THEN "_update_k8s" ELSE "_create_k8s"
                  /\ IF ~Exists(found.k8s) /\ MissingParams(params)
                     THEN Fail("missing required arguments")
                     ELSE pc' = "get_version" /\ UNCHANGED failure
    /\ UNCHANGED <<env, remote, ret, job, self_version, self_service_offering, changed,
                   seen, attached, result, run, prev>>

\* get_version (self.version is not set yet: the catalog is listed)
GetVersion ==
    /\ pc = "get_version"
    /\ calls' = Append(calls, Query("listKubernetesSupportedVersions"))
    /\ \/ /\ Fail("api")
          /\ UNCHANGED self_version
       \/ LET r == Resolution(versions, params.version)
          IN IF r = "ok"
             THEN /\ self_version' = FirstMatch(versions, params.version)
                  /\ pc' = "get_service_offering"
                  /\ UNCHANGED failure
             ELSE /\ Fail(IF r = "none_available" THEN "No Kubernetes versions available"
                          ELSE IF r = "not_found" THEN "version not found"
                          ELSE "exception")
                  /\ UNCHANGED self_version
    /\ UNCHANGED <<env, remote, caller, ret, job, self_k8s, k8s, self_service_offering,
                   changed, seen, attached, result, run, prev>>

\* get_service_offering (self.service_offering is not set yet)
GetServiceOffering ==
    /\ pc = "get_service_offering"
    /\ calls' = Append(calls, Query("listServiceOfferings"))
    /\ \/ /\ Fail("api")
          /\ UNCHANGED self_service_offering
       \/ LET r == Resolution(service_offerings, params.service_offering)
          IN IF r = "ok"
             THEN /\ self_service_offering' =
                        FirstMatch(service_offerings, params.service_offering)
                  /\ pc' = IF caller = "_create_k8s" THEN "create" ELSE "update_version"
                  /\ UNCHANGED failure
             ELSE /\ Fail(IF r = "none_available" THEN "No service offerings available"
                          ELSE IF r = "not_found" THEN "service offering not found"
                          ELSE "exception")
                  /\ UNCHANGED self_service_offering
    /\ UNCHANGED <<env, remote, caller, ret, job, self_k8s, k8s, self_version,
                   changed, seen, attached, result, run, prev>>

\* -------------------------------------------------------------- _create_k8s
\* the docker_registry block, or its three nulls when the block is omitted
DockerRegistry(p) ==
    IF p.docker_registry = <<>> THEN NoRegistry ELSE p.docker_registry[1]

\* (mutant) createKubernetesCluster given the version option as typed, not its id
CreateCall_byName ==
    Call("createKubernetesCluster", None, params.version, self_service_offering.id,
         params.size, DockerRegistry(params))

\* args of createKubernetesCluster
CreateCall ==
    Call("createKubernetesCluster", None, self_version.id, self_service_offering.id,
         params.size, DockerRegistry(params))

\* `if not self.module.check_mode` of _create_k8s
CreateIssues == ~check_mode

CreateK8s ==
    /\ pc = "create"
    /\ changed' = TRUE
    /\ IF CreateIssues
       THEN Issue(calls, CreateCall,
                  Job("createKubernetesCluster", CreateCall.kubernetesversionid,
                      CreateCall.serviceofferingid, CreateCall.size), "k8s_config")
       ELSE /\ k8s' = NoK8s
            /\ pc' = "k8s_config"
            /\ UNCHANGED <<calls, jobs, job, ret, failure>>
    /\ UNCHANGED <<env, cluster, caller, self_k8s, self_version, self_service_offering,
                   seen, attached, result, run, prev>>

\* ------------------------------------- get_version / get_service_offering again
\* (mutant) get_version without its memo: the catalog is listed on every call
VersionCached_never == FALSE

\* `if self.version:` and `if self.service_offering:` at the head of the two
\* resolvers: a reference once resolved is returned without a query
VersionCached == self_version # NoRef
OfferingCached == self_service_offering # NoRef

\* a later get_version(key='id') / get_service_offering(key='id'): the calls
\* it adds to the log, and the id it returns
GetVersionAgain(log) ==
    IF VersionCached THEN log
    ELSE Append(log, Query("listKubernetesSupportedVersions"))

GetServiceOfferingAgain(log) ==
    IF OfferingCached THEN log
    ELSE Append(log, Query("listServiceOfferings"))

VersionId ==
    IF VersionCached THEN self_version.id ELSE FirstMatch(versions, params.version).id

ServiceOfferingId ==
    IF OfferingCached THEN self_service_offering.id
    ELSE FirstMatch(service_offerings, params.service_offering).id

\* -------------------------------------------------------------- _update_k8s
\* args of _update_k8s, built from the record the lookup found
UpdateArgs ==
    [id |-> self_k8s.id,
     kubernetesversionid |-> self_version.id,
     serviceofferingid |-> self_service_offering.id,
     size |-> params.size]

\* (mutant) the version group comparing the version option as typed with the
\* record's version id
VersionGroup_byName(cur) ==
    HasChanged([UpdateArgs EXCEPT !.kubernetesversionid = params.version], cur,
               {"kubernetesversionid"})

\* (mutant) the version group without its only_keys: every key of args compared
VersionGroup_allKeys(cur) ==
    HasChanged(UpdateArgs, cur, {"kubernetesversionid", "serviceofferingid", "size"})

\* the version group: has_changed(args, k8s, only_keys=['kubernetesversionid'])
VersionGroup(cur) == HasChanged(UpdateArgs, cur, {"kubernetesversionid"})

\* the scale group: has_changed(args, k8s, only_keys=['serviceofferingid', 'size'])
ScaleGroup(cur) == HasChanged(UpdateArgs, cur, {"serviceofferingid", "size"})

\* upgrade_args
UpgradeCall ==
    Call("upgradeKubernetesCluster", UpdateArgs.id, VersionId, None, NoSize, NoRegistry)

\* (mutant) scale_args without the offering id
ScaleCall_sizeOnly ==
    Call("scaleKubernetesCluster", UpdateArgs.id, None, None, UpdateArgs.size, NoRegistry)

\* scale_args
ScaleCall ==
    Call("scaleKubernetesCluster", UpdateArgs.id, None, ServiceOfferingId,
         UpdateArgs.size, NoRegistry)

\* `if not self.module.check_mode` of the two groups
UpgradeIssues == ~check_mode
ScaleIssues == ~check_mode

UpdateVersion ==
    /\ pc = "update_version"
    /\ IF VersionGroup(k8s)
       THEN /\ changed' = TRUE
            /\ IF UpgradeIssues
               THEN Issue(GetVersionAgain(calls), UpgradeCall,
                          Job("upgradeKubernetesCluster", UpgradeCall.kubernetesversionid,
                              None, NoSize), "update_scale")
               ELSE /\ pc' = "update_scale"
                    /\ UNCHANGED <<k8s, calls, jobs, job, ret, failure>>
       ELSE /\ pc' = "update_scale"
            /\ UNCHANGED <<changed, k8s, calls, jobs, job, ret, failure>>
    /\ UNCHANGED <<env, cluster, caller, self_k8s, self_version, self_service_offering,
                   seen, attached, result, run, prev>>

UpdateScale ==
    /\ pc = "update_scale"
    /\ IF ScaleGroup(k8s)
       THEN /\ changed' = TRUE
            /\ IF ScaleIssues
               THEN Issue(GetServiceOfferingAgain(calls), ScaleCall,
                          Job("scaleKubernetesCluster", None, ScaleCall.serviceofferingid,
                              ScaleCall.size), "k8s_config")
               ELSE /\ pc' = "k8s_config"
                    /\ UNCHANGED <<k8s, calls, jobs, job, ret, failure>>
       ELSE /\ pc' = "k8s_config"
            /\ UNCHANGED <<changed, k8s, calls, jobs, job, ret, failure>>
    /\ UNCHANGED <<env, cluster, caller, self_k8s, self_version, self_service_offering,
                   seen, attached, result, run, prev>>

\* ------------------------------------------- present_k8s tail, _k8s_config
\* (mutant) _k8s_config never fetching the config
ConfigMissing_never(k) == FALSE

\* (mutant) _k8s_config fetching the config whether or not the record has one
ConfigMissing_always(k) == TRUE

\* `'config' not in k8s` of _k8s_config
ConfigMissing(k) == "config" \notin k.has

\* `if k8s: self.k8s = k8s; k8s = self._k8s_config()`: the record is stored,
\* and when it has no config key the config is fetched (k8s['id'] raises
\* KeyError on a record without id) and stored in it when the payload is usable
K8sConfig ==
    /\ pc = "k8s_config"
    /\ IF ~Truthy(k8s)
       THEN /\ pc' = "get_k8s"
            /\ UNCHANGED <<self_k8s, k8s, calls, attached, failure>>
       ELSE IF ~ConfigMissing(k8s)
       THEN /\ self_k8s' = k8s
            /\ pc' = "lifecycle"
            /\ UNCHANGED <<k8s, calls, attached, failure>>
       ELSE IF "id" \notin k8s.has
       THEN /\ self_k8s' = k8s
            /\ Fail("exception")
            /\ UNCHANGED <<k8s, calls, attached>>
       ELSE /\ calls' = Append(calls, Call("getKubernetesClusterConfig", k8s.id, None, None,
                                           NoSize, NoRegistry))
            /\ \/ /\ self_k8s' = k8s
                  /\ Fail("api")
                  /\ UNCHANGED <<k8s, attached>>
               \/ /\ k8s' = WithKeys(k8s, {"config"})
                  /\ self_k8s' = k8s'
                  /\ attached' = TRUE
                  /\ pc' = "lifecycle"
                  /\ UNCHANGED failure
               \/ /\ self_k8s' = k8s
                  /\ pc' = "lifecycle"
                  /\ UNCHANGED <<k8s, attached, failure>>
    /\ UNCHANGED <<env, remote, caller, ret, job, self_version, self_service_offering,
                   changed, seen, result, run, prev>>

\* get_k8s of start_k8s / stop_k8s when self.k8s is still falsy
GetK8s ==
    /\ pc = "get_k8s"
    /\ \E found \in Lookup :
          /\ calls' = calls \o found.calls
          /\ IF found.failed
             THEN /\ Fail("api")
                  /\ UNCHANGED <<self_k8s, k8s>>
             ELSE /\ self_k8s' = found.k8s
                  /\ k8s' = found.k8s
                  /\ pc' = "lifecycle"
                  /\ UNCHANGED failure
    /\ UNCHANGED <<env, remote, caller, ret, job, self_version, self_service_offering,
                   changed, seen, attached, result, run, prev>>

\* ------------------------------------------------------ start_k8s, stop_k8s
\* (mutant) start_k8s comparing the state without lower()
StartNeeded_caseSensitive(st) == st \in {"stopped", "stopping"}

\* (mutant) stop_k8s forgetting the 'starting' state
StopNeeded_onlyRunning(st) == Lower(st) \in {"running"}

\* (mutant) stop_k8s without its check-mode test
StopIssues_always == TRUE

StartNoop(st) == Lower(st) \in {"starting", "running"}
StartNeeded(st) == Lower(st) \in {"stopped", "stopping"}
StopNoop(st) == Lower(st) \in {"stopping", "stopped"}
StopNeeded(st) == Lower(st) \in {"starting", "running"}

\* (mutant) start_k8s setting changed and never issuing the call
StartIssues_never == FALSE

\* `if not self.module.check_mode` of start_k8s and of stop_k8s
StartIssues == ~check_mode
StopIssues == ~check_mode

\* start_k8s / stop_k8s on the record get_k8s returned (k8s['state'] raises
\* KeyError on a record without state)
Lifecycle(op, noop, needed, issues) ==
    IF ~Truthy(k8s)
    THEN /\ pc' = "final"
         /\ UNCHANGED <<k8s, changed, seen, calls, jobs, job, ret, failure>>
    ELSE IF "state" \notin k8s.has
    THEN /\ Fail("exception")
         /\ UNCHANGED <<k8s, changed, seen, calls, jobs, job, ret>>
    ELSE /\ seen' = k8s.state
         /\ IF ~noop /\ needed
            THEN /\ changed' = TRUE
                 /\ IF issues
                    THEN Issue(calls, Call(op, k8s.id, None, None, NoSize, NoRegistry),
                               Job(op, None, None, NoSize), "final")
                    ELSE /\ pc' = "final"
                         /\ UNCHANGED <<k8s, calls, jobs, job, ret, failure>>
            ELSE /\ pc' = "final"
                 /\ UNCHANGED <<k8s, changed, calls, jobs, job, ret, failure>>

StartK8s ==
    /\ pc = "lifecycle"
    /\ params.state \notin {"disabled"}
    /\ Lifecycle("startKubernetesCluster", StartNoop(k8s.state), StartNeeded(k8s.state),
                 StartIssues)
    /\ UNCHANGED <<env, cluster, caller, self_k8s, self_version, self_service_offering,
                   attached, result, run, prev>>

StopK8s ==
    /\ pc = "lifecycle"
    /\ params.state \in {"disabled"}
    /\ Lifecycle("stopKubernetesCluster", StopNoop(k8s.state), StopNeeded(k8s.state),
                 StopIssues)
    /\ UNCHANGED <<env, cluster, caller, self_k8s, self_version, self_service_offering,
                   attached, result, run, prev>>

\* --------------------------------------------------------------- main, end
\* (mutant) the final check comparing the state without lower()
InErrorState_caseSensitive(k) == Truthy(k) /\ "state" \in k.has /\ k.state = "error"

\* `k8s and 'state' in k8s and k8s['state'].lower() == 'error'`
InErrorState(k) == Truthy(k) /\ "state" \in k.has /\ Lower(k.state) = "error"

\* get_result(k8s): the changed flag, and the keys of the record it is handed
Report(k) == [changed |-> changed, config |-> Truthy(k) /\ "config" \in k.has]

Final ==
    /\ pc = "final"
    /\ IF InErrorState(k8s)
       THEN Fail("in error state") /\ UNCHANGED result
       ELSE /\ pc' = "done"
            /\ result' = Report(k8s)
            /\ UNCHANGED failure
    /\ UNCHANGED <<env, remote, caller, ret, job, self_k8s, k8s, self_version,
                   self_service_offering, changed, calls, seen, attached, run, prev>>

\* the same task is run again: a new process, the same options, the remote
\* state as the invocation before left it
NextRun ==
    /\ pc \in {"done", "failed"}
    /\ run < MaxRuns
    /\ run' = run + 1
    /\ prev' = [ok |-> pc = "done", changed |-> result.changed, cluster |-> cluster,
                jobs |-> jobs,
                issued |-> {calls[i].op : i \in 1..Len(calls)} \cap MutatingOps]
    /\ pc' = EntryPc(params)
    /\ caller' = ""
    /\ ret' = ""
    /\ job' = NoJob
    /\ self_k8s' = NoK8s
    /\ k8s' = NoK8s
    /\ self_version' = NoRef
    /\ self_service_offering' = NoRef
    /\ changed' = FALSE
    /\ failure' = ""
    /\ calls' = <<>>
    /\ seen' = None
    /\ attached' = FALSE
    /\ result' = NoResult
    /\ UNCHANGED <<env, remote>>

Next ==
    \/ AbsentK8s
    \/ DeleteK8s
    \/ PresentK8s
    \/ GetVersion
    \/ GetServiceOffering
    \/ CreateK8s
    \/ UpdateVersion
    \/ UpdateScale
    \/ K8sConfig
    \/ GetK8s
    \/ StartK8s
    \/ StopK8s
    \/ PollJob
    \/ JobFinish
    \/ Final

Spec == Init /\ [][Next]_vars

\* Two invocations in succession.  A first invocation whose references do not
\* resolve fails before any mutating call, and so does every repetition of it:
\* the repeated runs start from the inputs whose references resolve.
InitTwice ==
    /\ Init
    /\ versions # <<>>
    /\ service_offerings # <<>>
    /\ params.state # "absent" =>
           /\ params.version \in {"V1", "vid2"}
           /\ params.service_offering \in {"SMALL", "oid2"}

NextTwice == Next \/ NextRun

SpecTwice == InitTwice /\ [][NextTwice]_vars

\* Invocations that may supply an identifier of the cluster besides its name.
InitById == Start

SpecById == InitById /\ [][Next]_vars

\* A dry run followed by the real run: the task is first run in check mode,
\* and, when no remote call of the dry run failed, run again with the same
\* options without check mode, against the remote state the dry run left.
InitDryRun ==
    /\ Init
    /\ check_mode

RealRun ==
    /\ pc \in {"done", "failed"}
    /\ check_mode
    /\ failure \notin {"api", "job"}
    /\ check_mode' = FALSE
    /\ run' = run + 1
    /\ prev' = [ok |-> pc = "done", changed |-> result.changed, cluster |-> cluster,
                jobs |-> jobs,
                issued |-> {calls[i].op : i \in 1..Len(calls)} \cap MutatingOps]
    /\ pc' = EntryPc(params)
    /\ caller' = ""
    /\ ret' = ""
    /\ job' = NoJob
    /\ self_k8s' = NoK8s
    /\ k8s' = NoK8s
    /\ self_version' = NoRef
    /\ self_service_offering' = NoRef
    /\ changed' = FALSE
    /\ failure' = ""
    /\ calls' = <<>>
    /\ seen' = None
    /\ attached' = FALSE
    /\ result' = NoResult
    /\ UNCHANGED <<params, versions, service_offerings, remote>>

NextDryRun == Next \/ RealRun

SpecDryRun == InitDryRun /\ [][NextDryRun]_vars

\* =================================================================== claims
Count(op) == Cardinality({i \in 1..Len(calls) : calls[i].op = op})
Issued(op) == \E i \in 1..Len(calls) : calls[i].op = op
NoMutatingCall == \A i \in 1..Len(calls) : calls[i].op \notin MutatingOps

\* spellings of the remote states, written out
StoppedSpellings == {"stopped", "Stopped", "STOPPED", "stopping", "Stopping"}
RunningSpellings == {"running", "Running", "starting"}
ErrorSpellings == {"error", "Error", "eRRoR"}

\* every mutating call that is not the last call was accepted; with poll_async
\* the call after it is the poll of its job, and without there is no poll
PollFollows(op) ==
    /\ \A i \in 1..Len(calls) :
         (calls[i].op = op /\ i < Len(calls)) =>
             (params.poll_async <=> calls[i + 1].op = "queryAsyncJobResult")
    /\ (Len(calls) > 0 /\ calls[Len(calls)].op = op /\ params.poll_async) =>
           pc \in {"poll_job", "failed"}

\* ------------------------------------------------------------------- C1
\* C1: when an invocation not in check mode follows one that ended
\* successfully and whose jobs have all finished, so that the remote state is
\* settled and does not move afterwards (poll_async makes the invocation wait
\* for each of its jobs), it issues no mutating call, never sets changed and
\* reports changed=false.
C1_Idempotent ==
    /\ (run > 1 /\ prev.ok /\ ~check_mode /\ prev.jobs = <<>>) =>
           /\ NoMutatingCall
           /\ ~changed
           /\ jobs = <<>> /\ cluster = prev.cluster
           /\ pc = "done" => ~result.changed
    /\ (run > 1 /\ params.poll_async) => prev.jobs = <<>>

C1_Witness ==
    /\ run > 1 /\ prev.ok /\ prev.changed /\ ~check_mode /\ prev.jobs = <<>>
    /\ {"upgradeKubernetesCluster", "scaleKubernetesCluster", "startKubernetesCluster"}
           \subseteq prev.issued
    /\ pc = "done" /\ ~result.changed

\* ------------------------------------------------------------------- C2
\* C2 as claimed: enabled or disabled against an existing record with version,
\* service_offering and size omitted never fails over the omitted fields and
\* issues no upgrade and no scale call.
C2_OmittedFieldsExcluded ==
    (/\ params.state \in {"enabled", "disabled"}
     /\ params.version = None /\ params.service_offering = None /\ params.size = NoSize
     /\ caller = "_update_k8s") =>
        /\ failure \in {"", "api", "job", "in error state"}
        /\ ~Issued("upgradeKubernetesCluster")
        /\ ~Issued("scaleKubernetesCluster")

\* ------------------------------------------------------------------- C3
\* the two groups of fields, compared on the record the lookup found
\* (self.k8s keeps it until present_k8s stores the result of _update_k8s):
\* the requested version id against the record's, and the requested offering
\* id and size (when given) against the record's
VersionMismatch == self_k8s.kubernetesversionid # self_version.id
ScaleMismatch ==
    \/ self_k8s.serviceofferingid # self_service_offering.id
    \/ (params.size # NoSize /\ self_k8s.size # params.size)

GroupsTable ==
    /\ (VersionMismatch /\ ~ScaleMismatch) =>
           (Count("upgradeKubernetesCluster") = 1 /\ Count("scaleKubernetesCluster") = 0)
    /\ (~VersionMismatch /\ ScaleMismatch) =>
           (Count("upgradeKubernetesCluster") = 0 /\ Count("scaleKubernetesCluster") = 1)
    /\ (~VersionMismatch /\ ~ScaleMismatch) =>
           (Count("upgradeKubernetesCluster") = 0 /\ Count("scaleKubernetesCluster") = 0)

WantedVersionId == FirstMatch(versions, params.version).id
WantedOfferingId == FirstMatch(service_offerings, params.service_offering).id
WouldDelete == params.state = "absent" /\ Truthy(cluster)
WouldCreate == params.state # "absent" /\ ~Truthy(cluster)
WouldUpgrade ==
    params.state # "absent" /\ Truthy(cluster) /\ cluster.kubernetesversionid # WantedVersionId
WouldScale ==
    /\ params.state # "absent" /\ Truthy(cluster)
    /\ \/ cluster.serviceofferingid # WantedOfferingId
       \/ (params.size # NoSize /\ cluster.size # params.size)
WouldStart ==
    params.state \in {"present", "enabled"} /\ Truthy(cluster)
        /\ cluster.state \in StoppedSpellings
WouldStop ==
    params.state = "disabled" /\ Truthy(cluster) /\ cluster.state \in RunningSpellings
WouldMutate ==
    WouldDelete \/ WouldCreate \/ WouldUpgrade \/ WouldScale \/ WouldStart \/ WouldStop

\* C4: in check mode no mutating call is ever issued, and an invocation that
\* reaches its end on a branch where a real run would have deleted, created,
\* upgraded, scaled, started or stopped has set changed and, when it ends
\* successfully, reports changed=true (the final error-state check can still
\* turn that report into a failure).
C4_CheckMode ==
    check_mode =>
        /\ NoMutatingCall
        /\ jobs = <<>>
        /\ (WouldMutate /\ (pc \in {"final", "done"} \/ failure = "in error state"))
               => changed
        /\ (WouldMutate /\ pc = "done") => result.changed

C4_Witness ==
    /\ check_mode /\ pc = "done" /\ result.changed
    /\ WouldUpgrade /\ WouldScale /\ WouldStop

\* ------------------------------------------------------------------- C5
\* C5: an invocation whose final record has the state 'error' in any letter
\* case fails with the error-state message and never ends successfully,
\* whatever was issued before; and it fails with that message only then.
C5_FinalStateCheck ==
    /\ pc = "done" => ~(Truthy(k8s) /\ "state" \in k8s.has /\ k8s.state \in ErrorSpellings)
    /\ failure = "in error state" =>
           (Truthy(k8s) /\ "state" \in k8s.has /\ k8s.state \in ErrorSpellings)

C5_Witness ==
    /\ failure = "in error state"
    /\ k8s.state = "eRRoR"
    /\ Issued("upgradeKubernetesCluster")
    /\ changed

\* ------------------------------------------------------------------- C6
\* C6: with lifecycle enabled, and identically with present, no stop call is
\* ever issued and at most one start call; once start_k8s has evaluated a
\* record, a start call has been issued exactly when the record's state is a
\* spelling of 'stopped' or 'stopping' (in a dry run the same branch is taken
\* and sets changed, and the call is left out); an accepted start call is
\* followed by the poll of its job exactly when poll_async is set; for every
\* other state the record is returned as it was.
C6_StartTable ==
    params.state \in {"present", "enabled"} =>
        /\ Count("stopKubernetesCluster") = 0
        /\ Count("startKubernetesCluster") <= 1
        /\ Issued("startKubernetesCluster") => (seen \in StoppedSpellings /\ ~check_mode)
        /\ (pc \in {"lifecycle", "get_k8s"} \/ seen = None) => ~Issued("startKubernetesCluster")
        /\ (seen \in StoppedSpellings /\ ~check_mode) => Issued("startKubernetesCluster")
        /\ (seen \in StoppedSpellings /\ check_mode) => changed
        /\ PollFollows("startKubernetesCluster")
        /\ (seen # None /\ seen \notin StoppedSpellings /\ pc = "final") =>
               (k8s = self_k8s /\ k8s.state = seen)

C6_Witness ==
    /\ params.state = "present" /\ ~check_mode /\ params.poll_async
    /\ seen = "STOPPED"
    /\ Count("startKubernetesCluster") = 1
    /\ pc = "done" /\ k8s.state = "Running"

\* ------------------------------------------------------------------- C7
\* C7: with lifecycle disabled no start call is ever issued and at most one
\* stop call; once stop_k8s has evaluated a record, a stop call has been
\* issued exactly when the record's state is a spelling of 'starting' or
\* 'running' (in a dry run the branch sets changed and leaves the call out),
\* and an invocation that issued it and ends successfully reports
\* changed=true; an accepted stop call is followed by the poll of its job
\* exactly when poll_async is set.  Repeated after a successful run whose jobs
\* have finished, against the stopped record it left, the invocation reports
\* changed=false.
C7_StopTable ==
    params.state = "disabled" =>
        /\ Count("startKubernetesCluster") = 0
        /\ Count("stopKubernetesCluster") <= 1
        /\ Issued("stopKubernetesCluster") => (seen \in RunningSpellings /\ ~check_mode)
        /\ (pc \in {"lifecycle", "get_k8s"} \/ seen = None) => ~Issued("stopKubernetesCluster")
        /\ (seen \in RunningSpellings /\ ~check_mode) => Issued("stopKubernetesCluster")
        /\ (seen \in RunningSpellings /\ check_mode) => changed
        /\ (Issued("stopKubernetesCluster") /\ pc = "done") => result.changed
        /\ PollFollows("stopKubernetesCluster")
        /\ (seen # None /\ seen \notin RunningSpellings /\ pc = "final") =>
               (k8s = self_k8s /\ k8s.state = seen)
        /\ (/\ run > 1 /\ prev.ok /\ prev.jobs = <<>> /\ ~check_mode
            /\ "stopKubernetesCluster" \in prev.issued
            /\ prev.cluster.state = "Stopped"
            /\ pc = "done") => (~result.changed /\ NoMutatingCall)

C7_Witness ==
    /\ params.state = "disabled" /\ ~check_mode
    /\ run > 1 /\ prev.ok /\ prev.changed /\ prev.jobs = <<>>
    /\ prev.issued = {"stopKubernetesCluster"}
    /\ prev.cluster.state = "Stopped"
    /\ seen = "Stopped"
    /\ pc = "done" /\ ~result.changed

\* ------------------------------------------------------------------- C8
\* C8: at most one create call is issued, and only when the lookup found no
\* record; it carries the id the version option resolves to, the id the
\* service offering resolves to, the size option, and null for the three
\* docker-registry arguments when the docker_registry block is omitted; and
\* with lifecycle present (outside a dry run, which issues none) an
\* invocation that found no record and has got past _create_k8s has issued
\* exactly one.
C8_CreateOnce ==
    /\ Count("createKubernetesCluster") <= 1
    /\ \A i \in 1..Len(calls) :
         calls[i].op = "createKubernetesCluster" =>
            /\ caller = "_create_k8s"
            /\ calls[i].kubernetesversionid = (IF params.version = "V1" THEN "vid1" ELSE "vid2")
            /\ calls[i].serviceofferingid =
                   (IF params.service_offering = "SMALL" THEN "oid1" ELSE "oid2")
            /\ calls[i].size = params.size /\ params.size \in 1..MaxSize
            /\ params.docker_registry = <<>> =>
                   /\ calls[i].dockerregistryurl = None
                   /\ calls[i].dockerregistryusername = None
                   /\ calls[i].dockerregistrypassword = None
            /\ params.docker_registry # <<>> =>
                   /\ calls[i].dockerregistryurl = Registry.url
                   /\ calls[i].dockerregistryusername = Registry.username
                   /\ calls[i].dockerregistrypassword = Registry.password
    /\ (/\ params.state = "present" /\ caller = "_create_k8s" /\ ~check_mode
        /\ pc \in {"poll_job", "k8s_config", "lifecycle", "final", "done"}) =>
           Count("createKubernetesCluster") = 1

C8_Witness ==
    /\ params.state = "present" /\ params.docker_registry = <<>> /\ params.version = "V1"
    /\ pc = "done"
    /\ Count("createKubernetesCluster") = 1
    /\ \E i \in 1..Len(calls) :
         /\ calls[i].op = "createKubernetesCluster"
         /\ calls[i].dockerregistrypassword = None
         /\ calls[i].kubernetesversionid = "vid1"

\* ------------------------------------------------------------------- C9
\* C9: with lifecycle absent the invocation issues nothing but the cluster
\* lookup, the delete call and the poll of its job: at most one delete call,
\* none before a record was found; once the lookup is done, exactly one when
\* a record exists (outside a dry run, which issues none and sets changed),
\* and none, with changed=false, when no record exists.
C9_AbsentPath ==
    params.state = "absent" =>
        /\ \A i \in 1..Len(calls) :
             calls[i].op \in {"listKubernetesClusters", "deleteKubernetesCluster",
                              "queryAsyncJobResult"}
        /\ Count("listKubernetesClusters") <= 1
        /\ Count("deleteKubernetesCluster") <= 1
        /\ Issued("deleteKubernetesCluster") => (Truthy(self_k8s) /\ changed)
        /\ PollFollows("deleteKubernetesCluster")
        /\ (pc \in {"poll_job", "final", "done"} /\ Truthy(self_k8s)) =>
               /\ changed
               /\ ~check_mode => Count("deleteKubernetesCluster") = 1
        /\ (pc \in {"final", "done"} /\ ~Truthy(self_k8s)) =>
               (~Issued("deleteKubernetesCluster") /\ ~changed)
        /\ (pc = "done" /\ ~Truthy(self_k8s)) => ~result.changed

C9_Witness ==
    /\ params.state = "absent" /\ params.poll_async
    /\ pc = "done" /\ result.changed
    /\ Count("deleteKubernetesCluster") = 1
    /\ ~Truthy(cluster)

\* ------------------------------------------------------------------ C10
\* C10 as claimed, with poll_async set so that every record the invocation
\* holds is one a finished job returned: a successful invocation with
\* lifecycle present, enabled or disabled in which _k8s_config stored a usable
\* config payload hands a record with the config field to the final report,
\* also when a start or stop call was issued after the config was fetched.
C10_ConfigReported ==
    (pc = "done" /\ params.state # "absent" /\ params.poll_async /\ attached) =>
        result.config

\* ------------------------------------------------------------------ C11
Ops == [i \in 1..Len(calls) |-> calls[i].op]
PresenceOps == {"createKubernetesCluster", "upgradeKubernetesCluster",
                "scaleKubernetesCluster"}
LifecycleOps == {"startKubernetesCluster", "stopKubernetesCluster"}
ConfigOp == "getKubernetesClusterConfig"

\* C11: in the calls of one invocation no create, upgrade or scale call comes
\* after the config-retrieval call, and no create, upgrade, scale or
\* config-retrieval call comes after a start or stop call; a config-retrieval
\* call is issued only after the lookup found a record or a create call was
\* issued and answered.  With lifecycle present, no record found, polling and
\* no check mode, a successful invocation has issued exactly: the lookup, the
\* two catalog listings, one create call, its poll, one config-retrieval call,
\* and no start call (the created record is running).
C11_StepOrdering ==
    /\ \A i, j \in 1..Len(calls) :
         i < j =>
            /\ ~(Ops[i] = ConfigOp /\ Ops[j] \in PresenceOps)
            /\ ~(Ops[i] \in LifecycleOps /\ Ops[j] \in PresenceOps \cup {ConfigOp})
    /\ \A j \in 1..Len(calls) :
         Ops[j] = ConfigOp =>
            /\ Ops[1] = "listKubernetesClusters"
            /\ \/ caller = "_update_k8s"
               \/ \E i \in 1..(j - 1) : Ops[i] = "createKubernetesCluster"
    /\ (/\ params.state = "present" /\ caller = "_create_k8s"
        /\ params.poll_async /\ ~check_mode /\ pc = "done") =>
           /\ Ops = <<"listKubernetesClusters", "listKubernetesSupportedVersions",
                      "listServiceOfferings", "createKubernetesCluster",
                      "queryAsyncJobResult", ConfigOp>>
           /\ Lower(cluster.state) = "running"

C11_Witness ==
    /\ pc = "done" /\ params.poll_async /\ ~check_mode
    /\ Ops = <<"listKubernetesClusters", "listKubernetesSupportedVersions",
               "listServiceOfferings", "upgradeKubernetesCluster", "queryAsyncJobResult",
               "scaleKubernetesCluster", "queryAsyncJobResult", ConfigOp,
               "startKubernetesCluster", "queryAsyncJobResult">>

\* ------------------------------------------------------------------ C12
\* the offering id and size wanted, compared with a record as has_changed
\* compares them: a field the record lacks differs
ScaleMismatchOn(rec) ==
    \/ "serviceofferingid" \notin rec.has
    \/ rec.serviceofferingid # self_service_offering.id
    \/ (params.size # NoSize /\ ("size" \notin rec.has \/ rec.size # params.size))

\* C12: in an update outside check mode, an upgrade call comes strictly before
\* any scale call, with its poll in between when poll_async is set; when the
\* scale group is about to be evaluated after an upgrade, the record at hand
\* is the upgrade's result (the upgraded record with polling, the call's
\* immediate answer without) and no longer the record the lookup found; the
\* scale call is left out exactly when that record matches; when version and
\* offering/size both mismatched, one upgrade and one scale call were issued;
\* and every scale call carries the resolved offering id and the desired size.
C12_UpgradeBeforeScale ==
    (caller = "_update_k8s" /\ ~check_mode) =>
        /\ \A i, j \in 1..Len(calls) :
             (Ops[j] = "upgradeKubernetesCluster" /\ Ops[i] = "scaleKubernetesCluster") =>
                 /\ j < i
                 /\ params.poll_async => (Ops[j + 1] = "queryAsyncJobResult" /\ j + 1 < i)
        /\ (pc = "update_scale" /\ Issued("upgradeKubernetesCluster")) =>
               /\ k8s # self_k8s
               /\ IF params.poll_async
                  THEN k8s = cluster /\ k8s.kubernetesversionid = self_version.id
                  ELSE "jobid" \in k8s.has
        /\ (pc = "k8s_config" /\ Issued("upgradeKubernetesCluster")
               /\ ~Issued("scaleKubernetesCluster")) => ~ScaleMismatchOn(k8s)
        /\ (pc = "k8s_config" /\ VersionMismatch /\ ScaleMismatch) =>
               /\ Count("upgradeKubernetesCluster") = 1
               /\ Count("scaleKubernetesCluster") = 1
        /\ \A i \in 1..Len(calls) :
             Ops[i] = "scaleKubernetesCluster" =>
                 /\ calls[i].serviceofferingid = self_service_offering.id
                 /\ calls[i].serviceofferingid = FirstMatch(service_offerings,
                                                           params.service_offering).id
                 /\ calls[i].size = params.size

C12_Witness ==
    /\ caller = "_update_k8s" /\ ~check_mode /\ params.poll_async /\ pc = "k8s_config"
    /\ VersionMismatch /\ ScaleMismatch
    /\ Ops = <<"listKubernetesClusters", "listKubernetesSupportedVersions",
               "listServiceOfferings", "upgradeKubernetesCluster", "queryAsyncJobResult",
               "scaleKubernetesCluster", "queryAsyncJobResult">>
    /\ calls[6].serviceofferingid = "oid2" /\ calls[6].size = 2

\* ------------------------------------------------------------------ C13
\* C13: outside check mode the changed flag is set exactly when a mutating
\* call has been issued in this invocation (absent_k8s sets the flag in the
\* statement before its delete call, which is where pc = "delete" stands); so
\* an invocation that issued only read-only queries has not set the flag, and
\* a successful one reports changed exactly when it issued a mutating call.
C13_ChangedIffMutated ==
    ~check_mode =>
        /\ changed <=> (~NoMutatingCall \/ pc = "delete")
        /\ pc = "done" => (result.changed <=> ~NoMutatingCall)

C13_Witness ==
    /\ ~check_mode /\ pc = "done" /\ result.changed
    /\ Count("stopKubernetesCluster") = 1
    /\ Cardinality({i \in 1..Len(calls) : calls[i].op \in MutatingOps}) = 1
    /\ Issued(ConfigOp)

\* ------------------------------------------------------------------ C14
\* C14: a create call is issued only when the lookup found no record (self.k8s
\* holds the lookup's result until present_k8s stores the created record); an
\* invocation that issued create issues neither upgrade nor scale; start and
\* stop are never both issued; and an invocation issues at most one create,
\* one upgrade, one scale, one start or stop, and one delete.
C14_MutuallyExclusive ==
    /\ caller = "_update_k8s" => ~Issued("createKubernetesCluster")
    /\ (/\ Issued("createKubernetesCluster")
        /\ pc = "k8s_config" \/ (pc = "poll_job" /\ ret = "k8s_config")) =>
           ~Truthy(self_k8s)
    /\ Issued("createKubernetesCluster") =>
           (~Issued("upgradeKubernetesCluster") /\ ~Issued("scaleKubernetesCluster"))
    /\ ~(Issued("startKubernetesCluster") /\ Issued("stopKubernetesCluster"))
    /\ Count("createKubernetesCluster") <= 1
    /\ Count("upgradeKubernetesCluster") <= 1
    /\ Count("scaleKubernetesCluster") <= 1
    /\ Count("startKubernetesCluster") + Count("stopKubernetesCluster") <= 1
    /\ Count("deleteKubernetesCluster") <= 1

C14_Witness ==
    /\ pc = "done" /\ caller = "_update_k8s"
    /\ Count("upgradeKubernetesCluster") = 1
    /\ Count("scaleKubernetesCluster") = 1
    /\ Count("stopKubernetesCluster") = 1
    /\ ~Issued("createKubernetesCluster")

\* ------------------------------------------------------------------ C15
\* the invocation failed at mutating call op: the call was rejected, or the
\* poll of its job failed
AbortedAt(op) ==
    \/ failure = "api" /\ Len(calls) >= 1 /\ Ops[Len(calls)] = op
    \/ failure = "job" /\ Len(calls) >= 2 /\ Ops[Len(calls)] = "queryAsyncJobResult"
                       /\ Ops[Len(calls) - 1] = op

FailureAborts ==
    /\ failure # "" => (pc = "failed" /\ result = NoResult)
    /\ pc = "done" => failure = ""
    /\ failure = "job" => (Len(calls) >= 2 /\ Ops[Len(calls)] = "queryAsyncJobResult"
                           /\ Ops[Len(calls) - 1] \in MutatingOps)
    /\ AbortedAt("upgradeKubernetesCluster") =>
           /\ ~Issued("scaleKubernetesCluster") /\ ~Issued(ConfigOp)
           /\ \A i \in 1..Len(calls) : Ops[i] \notin LifecycleOps
    /\ (AbortedAt("createKubernetesCluster") \/ AbortedAt("scaleKubernetesCluster")) =>
           /\ ~Issued(ConfigOp)
           /\ \A i \in 1..Len(calls) : Ops[i] \notin LifecycleOps
    /\ (AbortedAt("scaleKubernetesCluster") /\ Issued("upgradeKubernetesCluster")
           /\ params.poll_async) =>
           (Truthy(cluster) /\ cluster.kubernetesversionid = self_version.id)

\* C15: a failure ends the invocation: once it has failed it issues no further
\* remote call of any kind and reports no result (a failed invocation never
\* reaches a report, a reported one never failed); the failure of a mutating
\* call or of its poll is the last call of the log, so that no scale follows a
\* failed upgrade and no config retrieval, start or stop follows a failed
\* create, upgrade or scale; and what was done before stays: the cluster
\* afterwards changes only by the remote side finishing a job already
\* accepted, and an upgrade polled to its end is in effect when the scale
\* after it fails.
C15_FailureAborts ==
    /\ []FailureAborts
    /\ [][pc = "failed" =>
            /\ calls' = calls /\ pc' = pc /\ result' = result /\ failure' = failure
            /\ \/ cluster' = cluster
               \/ jobs # <<>> /\ cluster' = Apply(Head(jobs), cluster)]_vars

C15_Witness ==
    /\ pc = "failed" /\ AbortedAt("scaleKubernetesCluster")
    /\ Issued("upgradeKubernetesCluster") /\ params.poll_async
    /\ cluster.kubernetesversionid = "vid2"
    /\ result = NoResult

\* ------------------------------------------------------------------ C16
\* some entry of the catalog goes by the wanted name or id
Listed(catalog, want) ==
    \E i \in 1..Len(catalog) :
        Lower(want) = Lower(catalog[i].name) \/ Lower(want) = catalog[i].id

NoneAvailable == {"No Kubernetes versions available", "No service offerings available"}
NotFound == {"version not found", "service offering not found"}

\* the failure a resolution of want against catalog must end with, given the
\* two messages of the resolver ("" when it must not fail over the reference)
ResolutionFailure(catalog, want, none, notfound) ==
    IF catalog = <<>> THEN none
    ELSE IF want # None /\ ~Listed(catalog, want) THEN notfound
    ELSE ""

\* C16: a version or service offering resolved against an empty catalog fails
\* the invocation with the 'none available' message of its resolver, a given
\* name or id that no entry of a non-empty catalog goes by fails it with the
\* 'not found' message, and neither message appears otherwise; an invocation
\* that failed so has issued no mutating call; and a create, upgrade or scale
\* call is issued only after both catalogs were listed and both references
\* resolved.
C16_ResolutionFailures ==
    /\ (pc \notin {"present_k8s", "get_version", "absent_k8s"} /\ failure # "api"
           /\ Issued("listKubernetesSupportedVersions")) =>
          LET f == ResolutionFailure(versions, params.version,
                                     "No Kubernetes versions available",
                                     "version not found")
          IN IF f # "" THEN failure = f /\ pc = "failed"
             ELSE failure \notin {"No Kubernetes versions available", "version not found"}
    /\ (pc \notin {"present_k8s", "get_version", "get_service_offering", "absent_k8s"}
           /\ failure # "api" /\ Issued("listServiceOfferings")) =>
          LET f == ResolutionFailure(service_offerings, params.service_offering,
                                     "No service offerings available",
                                     "service offering not found")
          IN IF f # "" THEN failure = f /\ pc = "failed"
             ELSE failure \notin {"No service offerings available",
                                  "service offering not found"}
    /\ failure \in NoneAvailable \cup NotFound => (pc = "failed" /\ NoMutatingCall)
    /\ \A j \in 1..Len(calls) :
         Ops[j] \in PresenceOps =>
            /\ \E i \in 1..(j - 1) : Ops[i] = "listKubernetesSupportedVersions"
            /\ \E i \in 1..(j - 1) : Ops[i] = "listServiceOfferings"
            /\ Listed(versions, params.version)
            /\ Listed(service_offerings, params.service_offering)

C16_Witness ==
    /\ pc = "failed" /\ failure = "service offering not found"
    /\ ~check_mode /\ caller = "_update_k8s"
    /\ self_version.id = "vid2" /\ self_k8s.kubernetesversionid = "vid1"
    /\ NoMutatingCall

\* ------------------------------------------------------------------ C17
\* C17: with poll_async set, every mutating call that the remote accepted is
\* followed at once by the poll of its job: while a job is pending the
\* invocation stands at poll_job, the job is the only one and its call is the
\* last of the log, so that no other call or comparison is made before the job
\* has ended; every mutating call in the log that is not the last is followed
\* by a poll.  With poll_async unset no poll is ever issued, and after a
\* mutating call the record at hand is the call's immediate answer.
C17_PollingProtocol ==
    /\ params.poll_async =>
          /\ \A i \in 1..Len(calls) :
               (Ops[i] \in MutatingOps /\ i < Len(calls)) =>
                   Ops[i + 1] = "queryAsyncJobResult"
          /\ (Len(calls) > 0 /\ Ops[Len(calls)] \in MutatingOps) =>
                 pc \in {"poll_job", "failed"}
          /\ jobs # <<>> =>
                 /\ pc = "poll_job" /\ Len(jobs) = 1 /\ Head(jobs) = job
                 /\ Ops[Len(calls)] = job.op
          /\ \A i \in 1..Len(calls) :
               Ops[i] = "queryAsyncJobResult" => (i > 1 /\ Ops[i - 1] \in MutatingOps)
    /\ ~params.poll_async =>
          /\ ~Issued("queryAsyncJobResult")
          /\ pc # "poll_job"
          /\ (Len(calls) > 0 /\ Ops[Len(calls)] \in MutatingOps /\ pc # "failed") =>
                 "jobid" \in k8s.has

C17_Witness ==
    /\ params.poll_async /\ pc = "poll_job"
    /\ Ops[Len(calls)] = "scaleKubernetesCluster"
    /\ Count("queryAsyncJobResult") = 1
    /\ Len(jobs) = 1 /\ job.op = "scaleKubernetesCluster"

\* ------------------------------------------------------------------ C18
\* the invocation has got through present_k8s with a record, without failing
PastConfig ==
    /\ params.state # "absent" /\ Truthy(self_k8s)
    /\ \/ pc \in {"lifecycle", "final", "done"}
       \/ pc = "poll_job" /\ ret = "final"

\* C18: at most one config-retrieval call is issued per invocation.  Once
\* present_k8s has stored a record: no call was issued when the record came
\* with a config field, and exactly one when it came without.  A call that
\* brought no usable payload leaves the record as it was, without config, and
\* the invocation goes on; after the call the invocation has failed only if
\* the remote rejected the call.  (The call is given k8s['id']: for a record
\* without id, the bare job handle of an unpolled upgrade or scale, the lookup
\* of the id raises before any call.)
ConfigOnceAndSilent ==
    /\ Count(ConfigOp) <= 1
    /\ PastConfig =>
          /\ Issued(ConfigOp) <=> ("config" \notin self_k8s.has \/ attached)
          /\ (Issued(ConfigOp) /\ ~attached) => "config" \notin self_k8s.has
          /\ attached => ("config" \in self_k8s.has /\ Issued(ConfigOp))
    /\ (pc = "lifecycle" /\ Issued(ConfigOp) /\ ~attached) =>
           (k8s = self_k8s /\ "config" \notin k8s.has)
    /\ (pc = "done" /\ Issued(ConfigOp) /\ ~attached /\ ~Issued("startKubernetesCluster")
           /\ ~Issued("stopKubernetesCluster")) => ~result.config

BothEnded ==
    /\ run > 1 /\ ~check_mode /\ pc \in {"done", "failed"}
    /\ failure \notin {"api", "job"}
    /\ prev.jobs = <<>> /\ prev.issued = {}

\* C19 as claimed, with poll_async set so that the real run waits for each of
\* its jobs: when all remote calls succeed, the real run ends as the dry run
\* from the same remote state did: both succeed or both fail, and when both
\* succeed they report the same changed flag.
C19_FaithfulDryRun ==
    (BothEnded /\ params.poll_async) =>
        /\ prev.ok <=> pc = "done"
        /\ (prev.ok /\ pc = "done") => (prev.changed = result.changed)

\* ------------------------------------------------------------------ C20
\* C20: the version catalog and the service-offering catalog are each listed
\* at most once per invocation; the upgrade call carries the version id and
\* the scale call the offering id that the first resolution found (the first
\* catalog entry going by the wanted name or id), and the resolution that
\* builds their arguments adds no listing: each catalog is listed before the
\* first mutating call or not at all.
C20_Memoized ==
    /\ Count("listKubernetesSupportedVersions") <= 1
    /\ Count("listServiceOfferings") <= 1
    /\ \A i, j \in 1..Len(calls) :
         (Ops[i] \in MutatingOps /\ i < j) =>
             Ops[j] \notin {"listKubernetesSupportedVersions", "listServiceOfferings"}
    /\ \A j \in 1..Len(calls) :
         /\ Ops[j] = "upgradeKubernetesCluster" =>
               /\ calls[j].kubernetesversionid = self_version.id
               /\ Listed(versions, params.version)
               /\ \E e \in {versions[n] : n \in 1..Len(versions)} :
                     /\ e.id = calls[j].kubernetesversionid
                     /\ Lower(params.version) \in {Lower(e.name), e.id}
               /\ Ops[j - 1] = "listServiceOfferings"
         /\ Ops[j] = "scaleKubernetesCluster" =>
               /\ calls[j].serviceofferingid = self_service_offering.id
               /\ \E e \in {service_offerings[n] : n \in 1..Len(service_offerings)} :
                     /\ e.id = calls[j].serviceofferingid
                     /\ Lower(params.service_offering) \in {Lower(e.name), e.id}
               /\ Ops[j - 1] \in {"listServiceOfferings", "queryAsyncJobResult",
                                  "upgradeKubernetesCluster"}

C20_Witness ==
    /\ pc = "done" /\ ~check_mode
    /\ Issued("upgradeKubernetesCluster") /\ Issued("scaleKubernetesCluster")
    /\ Count("listKubernetesSupportedVersions") = 1
    /\ Count("listServiceOfferings") = 1
    /\ \E j \in 1..Len(calls) :
         Ops[j] = "upgradeKubernetesCluster" /\ calls[j].kubernetesversionid = "vid2"

\* the cluster-list queries of the log that filter by name
NameLookups ==
    { i \in 1..Len(calls) : calls[i].op = "listKubernetesClusters" /\ calls[i].name # None }

\* the name-based lookup is issued only when no identifier was supplied
ByIdNeverByName == NameLookups # {} => params.id = None

\* a step taken with a non-empty record in self.k8s issues no cluster-list query
NoRequery ==
    Truthy(self_k8s) =>
        \A i \in (Len(calls) + 1)..Len(calls') : calls'[i].op # "listKubernetesClusters"

MemoizedLookup == [][NoRequery]_vars

\* an identifier no cluster has was supplied, and get_k8s went on to the
\* query that carries the name
FellBackToName == params.id # None /\ NameLookups # {} /\ pc = "done"

====
